---- MODULE Spec2Model ----
(***************************************************************************)
(* Voice management core of xsynth: the per-key VoiceBuffer                *)
(* (core/src/channel/voice_buffer.rs) and KeyData (core/src/channel/key.rs)*)
(* with the shared polyphony counter.                                      *)
(***************************************************************************)
EXTENDS Integers, Sequences, FiniteSets, TLC

VARIABLES
    options,    \* ChannelInitOptions: fade_out_killing, max_voices_per_frame
    kd,         \* key -> KeyData (VoiceBuffer fields flattened into it)
    counter,    \* shared_voice_counter (AtomicU64); a negative n stands for the wrapped value 2^64 + n
    hung,       \* keys whose handler is spinning in a loop that cannot exit
    fresh,      \* keys on which render_to has returned and no event has arrived since
    pc,         \* key -> position of the thread inside render_to / update_voice_counter
    last,       \* the operation that was performed last, its inputs and return value
    simd,       \* a SIMDMonoVoice / SIMDStereoVoice with its generator, and what its render_to calls wrote
    lim,        \* a VolumeLimiter and the samples it has returned
    sum,        \* a sum_simd call: its slices, the build, and its outcome
    pool        \* VOICE_RENDER_BUFFERS of one thread and the buffers the thread holds

keyvars == <<options, kd, counter, hung, fresh, pc, last>>
dspvars == <<simd, lim, sum, pool>>
vars == <<options, kd, counter, hung, fresh, pc, last, simd, lim, sum, pool>>

----------------------------------------------------------------------------
(* Bounds of the model.  MaxId*: pushes a key accepts before the model     *)
(* stops delivering events that push; MaxVoices*: events that would fill a *)
(* buffer beyond this are not delivered; MaxGroup*: most voices one        *)
(* spawn_voices_attack call yields.                                        *)

MaxId == 2
MaxVoices == 3
MaxGroup == 2

MaxIdPush == 3
MaxVoicesPush == 4
MaxGroupPush == 2

----------------------------------------------------------------------------
(* Program constants *)

U8Max == 255
SILENCE_THRESHOLD == 1

None == [some |-> FALSE, v |-> 0]
Some(x) == [some |-> TRUE, v |-> x]

----------------------------------------------------------------------------
(* Voice: the capability set used by VoiceBuffer *)

\* What amplitude() returns for a voice that has just been spawned, in units
\* of 0.001
AttackAmplitude == 2

\* amp is the level of the voice's envelope, which only a render_to call on
\* the voice moves; SpecReap follows it from tick to tick, the other
\* specifications draw what amplitude() returns from a set at every tick
NewVoice(id, vel) ==
    [id |-> id, vel |-> vel, releasing |-> FALSE, killed |-> FALSE, ended |-> FALSE,
     amp |-> AttackAmplitude]

\* signal_release(ReleaseType::Standard)
ReleaseStandard(v) == [v EXCEPT !.releasing = TRUE]

\* signal_release(ReleaseType::Kill)
ReleaseKill(v) == [v EXCEPT !.releasing = TRUE, !.killed = TRUE]

----------------------------------------------------------------------------
(* Sequence helpers standing for VecDeque / Vec / iterator methods *)

\* VecDeque::retain
Retain(s, Keep(_)) == SelectSeq(s, Keep)

Contains(s, x) == \E i \in 1..Len(s) : s[i] = x

\* iter().position(|&x| x == id) followed by remove(index)
RemoveFirst(s, x) ==
    IF Contains(s, x)
    THEN LET p == CHOOSE i \in 1..Len(s) : s[i] = x /\ \A j \in 1..(i - 1) : s[j] # x
         IN  SubSeq(s, 1, p - 1) \o SubSeq(s, p + 1, Len(s))
    ELSE s

SetMin(S) == CHOOSE x \in S : \A y \in S : x <= y

----------------------------------------------------------------------------
(* VoiceBuffer.  A buffer state vb is a record with the fields buffer,     *)
(* id_counter, damper_held and held_by_damper (KeyData's own fields ride   *)
(* along untouched).                                                       *)

NewVoiceBuffer ==
    [buffer |-> <<>>, id_counter |-> 0, damper_held |-> FALSE, held_by_damper |-> <<>>]

\* get_id: the id handed out is the incremented counter
GetId(vb) == [vb EXCEPT !.id_counter = @ + 1]

\* The grouping loop without its test of ignored_id
StealEligibleAny(buffer, ignored_id) ==
    {i \in 1..Len(buffer) : ~buffer[i].killed}

\* Indices the grouping loop of pop_quietest_voice_group does not skip
StealEligible(buffer, ignored_id) ==
    {i \in 1..Len(buffer) : ~(buffer[i].id = ignored_id \/ buffer[i].killed)}

\* id_groups entry: velocity of the first voice that created the entry
GroupVel(buffer, ignored_id, id) ==
    LET first == SetMin({i \in StealEligible(buffer, ignored_id) : buffer[i].id = id})
    IN  buffer[first].vel

\* The second loop looking for the highest velocity
LoudestIds(buffer, ignored_id) ==
    LET ids == {buffer[i].id : i \in StealEligible(buffer, ignored_id)}
    IN  {id \in ids : \A o \in ids :
            GroupVel(buffer, ignored_id, id) >= GroupVel(buffer, ignored_id, o)}

\* The ids the second loop of pop_quietest_voice_group can end on.  The loop
\* walks a HashMap, whose iteration order is unspecified, and keeps the first
\* id it meets with a velocity strictly below everything seen before,
\* starting from u8::MAX: any group of lowest velocity, if that is below 255.
QuietestIds(buffer, ignored_id) ==
    LET ids  == {buffer[i].id : i \in StealEligible(buffer, ignored_id)}
        low  == {id \in ids : GroupVel(buffer, ignored_id, id) < U8Max}
    IN  {id \in low : \A o \in low :
            GroupVel(buffer, ignored_id, id) <= GroupVel(buffer, ignored_id, o)}

\* pop_quietest_voice_group dropping the group whatever fade_out_killing is
StealGroupDrop(vb, id, fade) ==
    [vb EXCEPT !.buffer = Retain(@, LAMBDA v : v.id # id),
               !.held_by_damper = RemoveFirst(@, id)]

\* The effect of pop_quietest_voice_group once quietest_id = Some(id)
StealGroup(vb, id, fade) ==
    [vb EXCEPT
        !.buffer = IF fade
                   THEN [i \in 1..Len(@) |-> IF @[i].id = id THEN ReleaseKill(@[i]) ELSE @[i]]
                   ELSE Retain(@, LAMBDA v : v.id # id),
        !.held_by_damper = RemoveFirst(@, id)]

\* pop_quietest_voice_group: the set of states it can return
PopQuietestVoiceGroup(vb, ignored_id, fade) ==
    IF vb.buffer = <<>> \/ QuietestIds(vb.buffer, ignored_id) = {}
    THEN {vb}
    ELSE {StealGroup(vb, id, fade) : id \in QuietestIds(vb.buffer, ignored_id)}

\* kill_all_voices
KillAllVoices(vb, fade) ==
    IF fade
    THEN [vb EXCEPT !.buffer = [i \in 1..Len(@) |-> ReleaseKill(@[i])],
                    !.id_counter = 0]
    ELSE [vb EXCEPT !.buffer = <<>>]

\* get_active_count
GetActiveCount(buffer) == Cardinality({i \in 1..Len(buffer) : ~buffer[i].killed})

\* The count the trimming loop of push_voices compares with max_voices
TrimCount(buffer, fade) == IF fade THEN GetActiveCount(buffer) ELSE Len(buffer)

\* push_voices with an if in the place of its while
TrimOnce(vb, id, max_voices, fade) ==
    IF ~(TrimCount(vb.buffer, fade) > max_voices)
    THEN {[vb |-> vb, hung |-> FALSE]}
    ELSE {[vb |-> n, hung |-> FALSE] : n \in PopQuietestVoiceGroup(vb, id, fade)}

\* The while loops of push_voices: the set of [vb, hung] they can end in.
\* hung: the count is over budget and pop_quietest_voice_group changes
\* nothing, so the loop repeats the same iteration forever.
RECURSIVE TrimLoop(_, _, _, _)
TrimLoop(vb, id, max_voices, fade) ==
    IF ~(TrimCount(vb.buffer, fade) > max_voices)
    THEN {[vb |-> vb, hung |-> FALSE]}
    ELSE IF PopQuietestVoiceGroup(vb, id, fade) = {vb}
         THEN {[vb |-> vb, hung |-> TRUE]}
         ELSE UNION {TrimLoop(n, id, max_voices, fade) :
                        n \in PopQuietestVoiceGroup(vb, id, fade)}

\* push_voices(voices, max_voices) with an iterator of n voices of velocity vel
PushVoices(vb, vel, n, max_voices, fade) ==
    LET a  == GetId(vb)
        id == a.id_counter
        b  == [a EXCEPT !.buffer = @ \o [i \in 1..n |-> NewVoice(id, vel)]]
    IN  IF max_voices.some
        THEN TrimLoop(b, id, max_voices.v, fade)
        ELSE {[vb |-> b, hung |-> FALSE]}

\* The loop of release_next_voice without its break
RECURSIVE ReleaseLoopAll(_, _, _, _)
ReleaseLoopAll(buffer, i, id, vel) ==
    IF i > Len(buffer) THEN [buffer |-> buffer, ret |-> vel]
    ELSE IF buffer[i].releasing \/ buffer[i].killed
         THEN ReleaseLoopAll(buffer, i + 1, id, vel)
         ELSE ReleaseLoopAll([buffer EXCEPT ![i] = ReleaseStandard(@)], i + 1,
                             Some(buffer[i].id),
                             IF vel.some THEN vel ELSE Some(buffer[i].vel))

\* The loop of release_next_voice with the damper up, from index i on, with
\* the id and velocity found so far: the buffer and velocity it ends with
RECURSIVE ReleaseLoop(_, _, _, _)
ReleaseLoop(buffer, i, id, vel) ==
    IF i > Len(buffer) THEN [buffer |-> buffer, ret |-> vel]
    ELSE IF buffer[i].releasing \/ buffer[i].killed
         THEN ReleaseLoop(buffer, i + 1, id, vel)
         ELSE LET id1  == IF id.some THEN id ELSE Some(buffer[i].id)
                  vel1 == IF id.some THEN vel ELSE Some(buffer[i].vel)
              IN  IF id1 # Some(buffer[i].id)
                  THEN [buffer |-> buffer, ret |-> vel1]
                  ELSE ReleaseLoop([buffer EXCEPT ![i] = ReleaseStandard(@)],
                                   i + 1, id1, vel1)

\* The loop of release_next_voice with the damper held: held_by_damper after it
HoldLoop(buffer, held) ==
    LET cand == {i \in 1..Len(buffer) :
                    /\ ~(buffer[i].releasing \/ buffer[i].killed)
                    /\ ~Contains(held, buffer[i].id)}
    IN  IF cand = {} THEN held ELSE Append(held, buffer[SetMin(cand)].id)

\* release_next_voice taking its first branch whatever damper_held is
ReleaseNextVoiceDamperUp(vb) ==
    LET r == ReleaseLoop(vb.buffer, 1, None, None)
    IN  [vb |-> [vb EXCEPT !.buffer = r.buffer], ret |-> r.ret]

\* release_next_voice: [vb, ret]
ReleaseNextVoice(vb) ==
    IF ~vb.damper_held
    THEN LET r == ReleaseLoop(vb.buffer, 1, None, None)
         IN  [vb |-> [vb EXCEPT !.buffer = r.buffer], ret |-> r.ret]
    ELSE [vb  |-> [vb EXCEPT !.held_by_damper = HoldLoop(vb.buffer, @)],
          ret |-> None]

\* The loop of remove_ended_voices over ended_ids
RECURSIVE RemoveEach(_, _)
RemoveEach(held, ids) ==
    IF ids = <<>> THEN held ELSE RemoveEach(RemoveFirst(held, Head(ids)), Tail(ids))

\* remove_ended_voices dropping only the first ended voice
RemoveFirstEnded(vb) ==
    LET ended == {i \in 1..Len(vb.buffer) : vb.buffer[i].ended}
    IN  IF ended = {} THEN vb
        ELSE [vb EXCEPT
                !.held_by_damper = RemoveFirst(@, vb.buffer[SetMin(ended)].id),
                !.buffer = SubSeq(@, 1, SetMin(ended) - 1)
                           \o SubSeq(@, SetMin(ended) + 1, Len(@))]

\* remove_ended_voices
RemoveEndedVoices(vb) ==
    LET ended     == SelectSeq(vb.buffer, LAMBDA v : v.ended)
        ended_ids == [i \in 1..Len(ended) |-> ended[i].id]
    IN  [vb EXCEPT !.held_by_damper = RemoveEach(@, ended_ids),
                   !.buffer = Retain(@, LAMBDA v : ~v.ended)]

\* voice_count
VoiceCount(vb) == Len(vb.buffer)

\* set_damper forgetting the held ids without releasing their voices
SetDamperForget(vb, damper) ==
    LET a == IF vb.damper_held /\ ~damper
             THEN [vb EXCEPT !.held_by_damper = <<>>]
             ELSE vb
    IN  [a EXCEPT !.damper_held = damper]

\* set_damper releasing the held voices whenever the damper was held
SetDamperAlways(vb, damper) ==
    LET a == IF vb.damper_held
             THEN [vb EXCEPT
                      !.buffer = [i \in 1..Len(@) |->
                                    IF Contains(vb.held_by_damper, @[i].id)
                                    THEN ReleaseStandard(@[i]) ELSE @[i]],
                      !.held_by_damper = <<>>]
             ELSE vb
    IN  [a EXCEPT !.damper_held = damper]

\* set_damper
SetDamperVB(vb, damper) ==
    LET a == IF vb.damper_held /\ ~damper
             THEN [vb EXCEPT
                      !.buffer = [i \in 1..Len(@) |->
                                    IF Contains(vb.held_by_damper, @[i].id)
                                    THEN ReleaseStandard(@[i]) ELSE @[i]],
                      !.held_by_damper = <<>>]
             ELSE vb
    IN  [a EXCEPT !.damper_held = damper]

----------------------------------------------------------------------------
(* KeyData.  A key state is a VoiceBuffer record extended with             *)
(* last_voice_count and max_voices_per_frame.                              *)

Max2(a, b) == IF a >= b THEN a ELSE b

\* KeyData::new
NewKeyData(opts) ==
    [buffer |-> NewVoiceBuffer.buffer,
     id_counter |-> NewVoiceBuffer.id_counter,
     damper_held |-> NewVoiceBuffer.damper_held,
     held_by_damper |-> NewVoiceBuffer.held_by_damper,
     last_voice_count |-> 0,
     max_voices_per_frame |-> Max2(opts.max_voices_per_frame, 1)]

\* send_event(On(vel)): spawn_voices_attack yields n voices
SendOn(key, vel, n, max_layers, fade) == PushVoices(key, vel, n, max_layers, fade)

\* send_event(Off): spawn_voices_release yields nrel voices
SendOff(key, nrel, max_layers, fade) ==
    LET r == ReleaseNextVoice(key)
    IN  IF r.ret.some
        THEN PushVoices(r.vb, r.ret.v, nrel, max_layers, fade)
        ELSE {[vb |-> r.vb, hung |-> FALSE]}

\* send_event(AllOff): the while-let loop.  Every iteration that pushes
\* nothing releases at least one more voice, so Len(buffer) + 1 iterations
\* are enough for it to end; an iteration that pushes a voice leaves a voice
\* for the next iteration to release, and the loop goes on for ever (hung).
RECURSIVE AllOffLoop(_, _, _, _, _)
AllOffLoop(key, nrel, max_layers, fade, fuel) ==
    LET r == ReleaseNextVoice(key)
    IN  IF ~r.ret.some THEN {[vb |-> r.vb, hung |-> FALSE]}
        ELSE IF fuel = 0 THEN {[vb |-> r.vb, hung |-> TRUE]}
        ELSE UNION {IF o.hung THEN {o}
                    ELSE AllOffLoop(o.vb, nrel, max_layers, fade, fuel - 1) :
                        o \in PushVoices(r.vb, r.ret.v, nrel, max_layers, fade)}

SendAllOff(key, nrel, max_layers, fade) ==
    AllOffLoop(key, nrel, max_layers, fade, Len(key.buffer) + 1)

\* send_event(AllKilled)
SendAllKilled(key, fade) == KillAllVoices(key, fade)

\* Voice::render_to on one voice; ends: the generator finishes during this call
RenderVoice(v, ends) == [v EXCEPT !.ended = @ \/ ends]

\* voice_data of render_with_priority without the filter on the amplitude
VoiceDataAll(amps) == [i \in 1..Len(amps) |-> <<i, amps[i]>>]

\* voice_data of render_with_priority after the filter: (index, amplitude)
\* pairs in buffer order.  amps[i] is what amplitude() returns for voice i.
VoiceData(amps) ==
    SelectSeq([i \in 1..Len(amps) |-> <<i, amps[i]>>], LAMBDA d : d[2] > SILENCE_THRESHOLD)

\* voice_data left in buffer order
SortKeepOrder(data) == data

\* sort_by(|a, b| b.1.partial_cmp(&a.1)): a stable sort, highest amplitude first
RECURSIVE SortByAmplitude(_)
SortByAmplitude(data) ==
    IF data = <<>> THEN <<>>
    ELSE LET p == CHOOSE i \in 1..Len(data) :
                     /\ \A j \in 1..Len(data) : data[j][2] <= data[i][2]
                     /\ \A j \in 1..(i - 1) : data[j][2] < data[i][2]
         IN  <<data[p]>> \o
             SortByAmplitude(SubSeq(data, 1, p - 1) \o SubSeq(data, p + 1, Len(data)))

\* indices_to_render of render_with_priority
IndicesToRender(amps, max_voices_per_frame) ==
    LET sorted       == SortByAmplitude(VoiceData(amps))
        render_count == IF Len(sorted) <= max_voices_per_frame
                        THEN Len(sorted) ELSE max_voices_per_frame
    IN  {sorted[i][1] : i \in 1..render_count}

\* The buffer indices on which render_to calls Voice::render_to
RenderedIndices(key, amps) ==
    IF VoiceCount(key) <= key.max_voices_per_frame
    THEN 1..VoiceCount(key)
    ELSE IndicesToRender(amps, key.max_voices_per_frame)

\* render_to up to and including remove_ended_voices; ending: the indices
\* whose generator finishes if rendered in this call
RenderVoices(key, amps, ending) ==
    IF VoiceCount(key) = 0 THEN key
    ELSE LET done == RenderedIndices(key, amps) \cap ending
         IN  RemoveEndedVoices(
                [key EXCEPT !.buffer = [i \in 1..Len(@) |-> RenderVoice(@[i], i \in done)]])

\* What amplitude() returns for each voice of the buffer
Amplitudes(key) == [i \in 1..Len(key.buffer) |-> key.buffer[i].amp]

\* Voice::render_to moving the envelopes of the voices it is called on:
\* after[i] is the level of voice i when the call returns
Decay(key, after) ==
    [key EXCEPT !.buffer = [i \in 1..Len(@) |->
        IF i \in DOMAIN after THEN [@[i] EXCEPT !.amp = after[i]] ELSE @[i]]]

\* update_voice_counter adding the whole count at every call
CounterChangeTotal(key, new_count) == new_count

\* update_voice_counter: the change applied to the shared counter
CounterChange(key, new_count) == new_count - key.last_voice_count

\* fetch_sub and fetch_add taken for each other
FetchApplySwapped(c, change) ==
    IF change < 0 THEN c + (0 - change)
    ELSE IF change > 0 THEN c - change
    ELSE c

\* fetch_sub / fetch_add on the AtomicU64 (see the variable counter)
FetchApply(c, change) ==
    IF change < 0 THEN c - (0 - change)
    ELSE IF change > 0 THEN c + change
    ELSE c

\* update_voice_counter without its store to last_voice_count
StoreLastKeep(key, new_count) == key

\* update_voice_counter: the store to last_voice_count
StoreLast(key, new_count) == [key EXCEPT !.last_voice_count = new_count]

----------------------------------------------------------------------------
(* SIMD voices (voice/simdvoice.rs).  The generator hands out its blocks   *)
(* in order: the block of the p-th next_sample call is named p, and block   *)
(* 0 is SIMDSample::zero().  What a call adds to the buffer is recorded as  *)
(* a sequence of writes [idx, block, lane, ch]: lane `lane` of channel ch   *)
(* of block `block` was added to buffer[idx].                               *)

\* SIMDMonoVoice::new / SIMDStereoVoice::new
NewSimdVoice(stereo, width) ==
    [stereo |-> stereo, width |-> width,
     remainder |-> 0, remainder_pos |-> width, pulled |-> 0]

\* The floats of one frame: 2 for the interleaved stereo buffer
FrameSize(v) == IF v.stereo THEN 2 ELSE 1

\* The additions one lane makes at buf_idx (and at buf_idx + 1 in stereo)
LaneWrites(v, buf_idx, block, lane) ==
    IF v.stereo
    THEN <<[idx |-> buf_idx, block |-> block, lane |-> lane, ch |-> 0],
           [idx |-> buf_idx + 1, block |-> block, lane |-> lane, ch |-> 1]>>
    ELSE <<[idx |-> buf_idx, block |-> block, lane |-> lane, ch |-> 0]>>

\* generator.next_sample()
NextSample(v) == [v EXCEPT !.pulled = @ + 1]

\* The first loop of render_to leaving the remainder where it is
DrainNone(r, buf_len) == r

\* The first loop of render_to: consume the remainder of the previous call.
\* r = [v, buf_idx, writes]
RECURSIVE DrainLoop(_, _)
DrainLoop(r, buf_len) ==
    IF r.buf_idx < buf_len /\ r.v.remainder_pos < r.v.width
    THEN DrainLoop(
            [v       |-> [r.v EXCEPT !.remainder_pos = @ + 1],
             buf_idx |-> r.buf_idx + FrameSize(r.v),
             writes  |-> r.writes \o LaneWrites(r.v, r.buf_idx, r.v.remainder,
                                                r.v.remainder_pos)],
            buf_len)
    ELSE r

\* The lanes 0..width-1 of one block added from buf_idx on
RECURSIVE BlockWrites(_, _, _, _)
BlockWrites(v, buf_idx, block, i) ==
    IF i >= v.width THEN <<>>
    ELSE LaneWrites(v, buf_idx + i * FrameSize(v), block, i)
         \o BlockWrites(v, buf_idx, block, i + 1)

\* The second loop of render_to: whole blocks
RECURSIVE BatchLoop(_, _)
BatchLoop(r, buf_len) ==
    IF r.buf_idx + r.v.width * FrameSize(r.v) <= buf_len
    THEN LET g == NextSample(r.v)
         IN  BatchLoop(
                [v       |-> g,
                 buf_idx |-> r.buf_idx + r.v.width * FrameSize(r.v),
                 writes  |-> r.writes \o BlockWrites(r.v, r.buf_idx, g.pulled, 0)],
                buf_len)
    ELSE r

\* The inner loop of the last part of render_to
RECURSIVE TailLoop(_, _)
TailLoop(r, buf_len) ==
    IF r.buf_idx < buf_len
    THEN TailLoop(
            [v       |-> [r.v EXCEPT !.remainder_pos = @ + 1],
             buf_idx |-> r.buf_idx + FrameSize(r.v),
             writes  |-> r.writes \o LaneWrites(r.v, r.buf_idx, r.v.remainder,
                                                r.v.remainder_pos)],
            buf_len)
    ELSE r

\* The last part of render_to pulling a block whatever is left to fill
RemainingAlways(r, buf_len) ==
    LET g == NextSample(r.v)
    IN  TailLoop([r EXCEPT !.v = [g EXCEPT !.remainder = g.pulled,
                                           !.remainder_pos = 0]], buf_len)

\* The last part of render_to: pull one more block for what is left
Remaining(r, buf_len) ==
    IF r.buf_idx < buf_len
    THEN LET g == NextSample(r.v)
         IN  TailLoop([r EXCEPT !.v = [g EXCEPT !.remainder = g.pulled,
                                               !.remainder_pos = 0]], buf_len)
    ELSE r

\* SIMDMonoVoice::render_to / SIMDStereoVoice::render_to on a buffer of
\* buf_len floats: [v, buf_idx, writes]
SimdRenderTo(v, buf_len) ==
    Remaining(BatchLoop(DrainLoop([v |-> v, buf_idx |-> 0, writes |-> <<>>], buf_len),
                        buf_len),
              buf_len)

\* What a call added to each slot of its buffer, slot by slot: the
\* sequence, over the indices 0..buf_len-1, of the <<block, lane, ch>>
\* added to that index, in the order of the additions
Added(writes, buf_len) ==
    [i \in 1..buf_len |->
        LET w == SelectSeq(writes, LAMBDA x : x.idx = i - 1)
        IN  [j \in 1..Len(w) |-> <<w[j].block, w[j].lane, w[j].ch>>]]

\* A write through get_unchecked_mut past the end of the slice
OutOfBounds(writes, buf_len) == \E j \in 1..Len(writes) : writes[j].idx >= buf_len

----------------------------------------------------------------------------
(* sum_simd (helpers/simd.rs).  The samples are small integers, on which   *)
(* the f32 addition is exact.                                              *)

\* target[i .. i + n - 1] += source[i .. i + n - 1], i counted from 0
AddRange(source, target, i, n) ==
    [j \in 1..Len(target) |->
        IF j - 1 >= i /\ j - 1 < i + n THEN target[j] + source[j] ELSE target[j]]

\* One of the loops of the inner function sum: chunks of `step` elements
\* while a whole chunk is left.  r = [i, target]
RECURSIVE ChunkLoop(_, _, _)
ChunkLoop(source, r, step) ==
    IF r.i + step <= Len(source)
    THEN ChunkLoop(source,
                   [i |-> r.i + step, target |-> AddRange(source, r.target, r.i, step)],
                   step)
    ELSE r

\* The inner function sum on two slices of the same length
Sum(source, target, width) ==
    ChunkLoop(source,
        ChunkLoop(source,
            ChunkLoop(source,
                ChunkLoop(source, [i |-> 0, target |-> target], width * 4),
                width * 2),
            width),
        1).target

\* sum_simd(source, target) in a build with (debug) or without debug
\* assertions: the target afterwards, or the panic of the assertion
SumSimd(source, target, debug, width) ==
    LET len == IF Len(source) <= Len(target) THEN Len(source) ELSE Len(target)
    IN  IF len = 0 THEN [panicked |-> FALSE, target |-> target]
        ELSE IF debug /\ Len(source) # Len(target)
        THEN [panicked |-> TRUE, target |-> target]
        ELSE [panicked |-> FALSE,
              target |-> Sum(SubSeq(source, 1, len), SubSeq(target, 1, len), width)
                         \o SubSeq(target, len + 1, Len(target))]

----------------------------------------------------------------------------
(* VolumeLimiter (effects/limiter.rs).  An f32 is a record: a finite value *)
(* in units of 0.001 (quotients rounded towards zero), an infinity with    *)
(* its sign, or NaN, with the IEEE 754 results the operations of limit     *)
(* give on them.                                                           *)

Fin(x) == [k |-> "fin", x |-> x]
PInf == [k |-> "inf", x |-> 1]
NInf == [k |-> "inf", x |-> 0 - 1]
NaN == [k |-> "nan", x |-> 0]

AbsInt(x) == IF x < 0 THEN 0 - x ELSE x
SignInt(x) == IF x < 0 THEN 0 - 1 ELSE 1

\* f32::abs
FAbs(a) ==
    IF a.k = "fin" THEN Fin(AbsInt(a.x)) ELSE IF a.k = "inf" THEN PInf ELSE NaN

\* a > b on f32: false when either side is NaN
FGt(a, b) ==
    IF a.k = "nan" \/ b.k = "nan" THEN FALSE
    ELSE IF a.k = "inf" THEN a.x = 1 /\ b # PInf
    ELSE IF b.k = "inf" THEN b.x = 0 - 1
    ELSE a.x > b.x

\* SingleChannelLimiter::new; attack, falloff and strength are plain numbers
NewSingleChannelLimiter ==
    [loudness |-> Fin(1000), attack |-> 100, falloff |-> 16000, strength |-> 1,
     min_thresh |-> Fin(100), max_output |-> Fin(950)]

\* (loudness * rate + abs) / (rate + 1.0), loudness and abs not negative
Follow(loudness, abs, rate) ==
    IF loudness.k = "nan" \/ abs.k = "nan" THEN NaN
    ELSE IF loudness.k = "inf" \/ abs.k = "inf" THEN PInf
    ELSE Fin((loudness.x * rate + abs.x) \div (rate + 1))

\* f32::max: the other operand when one of them is NaN
FMax(a, b) ==
    IF a.k = "nan" THEN b
    ELSE IF b.k = "nan" THEN a
    ELSE IF FGt(b, a) THEN b ELSE a

\* (effective_loudness - 1.0).max(0.0) * strength
Over(effective_loudness, strength) ==
    IF effective_loudness.k = "inf"
    THEN (IF effective_loudness.x = 1 THEN PInf ELSE Fin(0))
    ELSE Fin((IF effective_loudness.x > 1000 THEN effective_loudness.x - 1000 ELSE 0)
             * strength)

\* val * (1.0 / (1.0 + over)): the gain is 0.0 when over is infinite
Limited(val, over) ==
    IF val.k = "nan" THEN NaN
    ELSE IF over.k = "inf" THEN (IF val.k = "inf" THEN NaN ELSE Fin(0))
    ELSE IF val.k = "inf" THEN val
    ELSE Fin(SignInt(val.x) * ((AbsInt(val.x) * 1000) \div (1000 + over.x)))

\* The soft clipping of limit: inf / (1.0 + inf * 2.0) is NaN
SoftClipped(limited, max_output) ==
    IF ~FGt(FAbs(limited), max_output) THEN limited
    ELSE IF limited.k = "inf" THEN NaN
    ELSE LET excess == AbsInt(limited.x) - max_output.x
         IN  Fin(SignInt(limited.x)
                 * (max_output.x + (excess * 1000) \div (1000 + excess * 2)))

\* f32::clamp(-0.99, 0.99): NaN stays NaN
Clamp(a) ==
    IF a.k = "nan" THEN NaN
    ELSE IF a.k = "inf" THEN Fin(a.x * 990)
    ELSE IF a.x < 0 - 990 THEN Fin(0 - 990)
    ELSE IF a.x > 990 THEN Fin(990)
    ELSE a

\* SingleChannelLimiter::limit: the channel afterwards and the value returned
Limit(ch, val) ==
    LET abs      == FAbs(val)
        loudness == IF FGt(ch.loudness, abs)
                    THEN Follow(ch.loudness, abs, ch.falloff)
                    ELSE Follow(ch.loudness, abs, ch.attack)
        effective_loudness == FMax(loudness, ch.min_thresh)
        limited  == Limited(val, Over(effective_loudness, ch.strength))
    IN  [ch  |-> [ch EXCEPT !.loudness = loudness],
         out |-> Clamp(SoftClipped(limited, ch.max_output))]

\* VolumeLimiter::new
NewVolumeLimiter(channel_count) ==
    [channels |-> [c \in 1..channel_count |-> NewSingleChannelLimiter],
     channel_count |-> channel_count]

\* The loop of VolumeLimiter::limit from index i on (channels[c] of the
\* code is channels[c + 1] here); i % 0 panics
RECURSIVE LimitLoop(_, _, _)
LimitLoop(vl, sample, i) ==
    IF i >= Len(sample) THEN [vl |-> vl, sample |-> sample, panicked |-> FALSE]
    ELSE IF vl.channel_count = 0 THEN [vl |-> vl, sample |-> sample, panicked |-> TRUE]
    ELSE LET c == (i % vl.channel_count) + 1
             r == Limit(vl.channels[c], sample[i + 1])
         IN  LimitLoop([vl EXCEPT !.channels[c] = r.ch],
                       [sample EXCEPT ![i + 1] = r.out], i + 1)

\* VolumeLimiter::limit
VolumeLimit(vl, sample) == LimitLoop(vl, sample, 0)

----------------------------------------------------------------------------
(* The thread-local pool of render buffers (helpers.rs).  A Vec<f32> is    *)
(* [len, cap, zero]: its length, its capacity, and whether its elements    *)
(* are all 0.0.                                                            *)

\* The 16 of `if pool.len() < 16`
PoolLimit == 16

\* vec![0.0; size]
VecZeros(size) == [len |-> size, cap |-> size, zero |-> TRUE]

\* Vec::reserve(additional): nothing when cap - len is enough, otherwise a
\* capacity of at least len + additional (exactly that, or the doubled
\* capacity when it is larger)
Reserve(buf, additional) ==
    IF buf.cap - buf.len >= additional THEN {buf}
    ELSE {[buf EXCEPT !.cap = c] :
            c \in {buf.len + additional, Max2(2 * buf.cap, buf.len + additional)}}

\* unsafe { buf.set_len(size) }
SetLen(buf, size) == [buf EXCEPT !.len = size, !.zero = @ /\ size <= buf.len]

\* buf.fill(0.0)
Fill(buf) == [buf EXCEPT !.zero = TRUE]

\* get_render_buffer(size): the pool afterwards, the buffer handed out, and
\* ub when set_len put the length beyond the capacity
GetRenderBuffer(bufs, size) ==
    IF bufs # <<>>
    THEN LET buf == bufs[Len(bufs)]
         IN  {[bufs |-> SubSeq(bufs, 1, Len(bufs) - 1),
               buf  |-> Fill(SetLen(r, size)),
               ub   |-> size > r.cap] :
                 r \in IF buf.cap < size THEN Reserve(buf, size - buf.cap) ELSE {buf}}
    ELSE {[bufs |-> <<>>, buf |-> VecZeros(size), ub |-> FALSE]}

\* return_render_buffer(buf)
ReturnRenderBuffer(bufs, buf) ==
    IF Len(bufs) < PoolLimit THEN Append(bufs, buf) ELSE bufs

----------------------------------------------------------------------------
(* Events and render ticks on the keys of one channel *)

Keys == DOMAIN kd

Idle(k) == pc[k] = "idle"

NoOp ==
    [op |-> "new", key |-> 0, vel |-> 0, n |-> 0, max |-> None, ret |-> None,
     amps |-> <<>>, sel |-> {}]

Did(op, k, vel, n, max, ret) ==
    [op |-> op, key |-> k, vel |-> vel, n |-> n, max |-> max, ret |-> ret,
     amps |-> <<>>, sel |-> {}]

\* A render tick on key k: n counts the voices rendered, ret those that
\* ended, sel is the set of buffer indices rendered and amps the amplitudes
\* render_with_priority read (none on the path that renders every voice)
DidRender(k, amps, ending) ==
    LET sel  == IF VoiceCount(kd[k]) = 0 THEN {} ELSE RenderedIndices(kd[k], amps)
        read == IF VoiceCount(kd[k]) <= kd[k].max_voices_per_frame THEN <<>> ELSE amps
    IN  [Did("render", k, 0, Cardinality(sel), None, Some(Cardinality(sel \cap ending)))
            EXCEPT !.amps = read, !.sel = sel]

\* What an event handler leaves behind: o is one of its [vb, hung] outcomes
Handled(k, o) ==
    /\ kd' = [kd EXCEPT ![k] = o.vb]
    /\ hung' = IF o.hung THEN hung \cup {k} ELSE hung
    /\ fresh' = fresh \ {k}
    /\ UNCHANGED <<options, counter, pc, simd, lim, sum, pool>>

\* The voices a push of n voices took out of the count it trims
Stolen(before, after, n) ==
    TrimCount(before.buffer, options.fade_out_killing) + n
        - TrimCount(after.buffer, options.fade_out_killing)

\* ret of an On records how many voices its push_voices call stole
OnEvent(k, vel, n, max_layers) ==
    /\ Idle(k)
    /\ \E o \in SendOn(kd[k], vel, n, max_layers, options.fade_out_killing) :
          /\ Handled(k, o)
          /\ last' = Did("on", k, vel, n, max_layers, Some(Stolen(kd[k], o.vb, n)))

OffEvent(k, nrel, max_layers) ==
    /\ Idle(k)
    /\ \E o \in SendOff(kd[k], nrel, max_layers, options.fade_out_killing) :
          Handled(k, o)
    /\ last' = Did("off", k, 0, nrel, max_layers, ReleaseNextVoice(kd[k]).ret)

AllOffEvent(k, nrel, max_layers) ==
    /\ Idle(k)
    /\ \E o \in SendAllOff(kd[k], nrel, max_layers, options.fade_out_killing) :
          Handled(k, o)
    /\ last' = Did("alloff", k, 0, nrel, max_layers, ReleaseNextVoice(kd[k]).ret)

AllKilledEvent(k) ==
    /\ Idle(k)
    /\ Handled(k, [vb |-> SendAllKilled(kd[k], options.fade_out_killing), hung |-> FALSE])
    /\ last' = Did("allkilled", k, 0, 0, None, None)

\* KeyData::set_damper; n records how many group ids were held before the
\* call, ret the argument
SetDamper(k, damper) ==
    /\ Idle(k)
    /\ Handled(k, [vb |-> SetDamperVB(kd[k], damper), hung |-> FALSE])
    /\ last' = Did("damper", k, 0, Len(kd[k].held_by_damper), None,
                   Some(IF damper THEN 1 ELSE 0))

\* KeyData::render_to as one step (one audio thread)
RenderTo(k, amps, ending) ==
    /\ Idle(k)
    /\ LET a == RenderVoices(kd[k], amps, ending)
       IN  /\ counter' = FetchApply(counter, CounterChange(a, VoiceCount(a)))
           /\ kd' = [kd EXCEPT ![k] = StoreLast(a, VoiceCount(a))]
    /\ fresh' = fresh \cup {k}
    /\ last' = DidRender(k, amps, ending)
    /\ UNCHANGED <<options, hung, pc, simd, lim, sum, pool>>

\* render_to on a thread of its own: the voices are rendered and reaped ...
RenderBegin(k, amps, ending) ==
    /\ Idle(k)
    /\ kd' = [kd EXCEPT ![k] = RenderVoices(kd[k], amps, ending)]
    /\ pc' = [pc EXCEPT ![k] = "fetch"]
    /\ last' = DidRender(k, amps, ending)
    /\ UNCHANGED <<options, counter, hung, fresh, simd, lim, sum, pool>>

\* ... update_voice_counter applies the change with one atomic operation ...
RenderFetch(k) ==
    /\ pc[k] = "fetch"
    /\ counter' = FetchApply(counter, CounterChange(kd[k], VoiceCount(kd[k])))
    /\ pc' = [pc EXCEPT ![k] = "store"]
    /\ UNCHANGED <<options, kd, hung, fresh, last, simd, lim, sum, pool>>

\* ... and stores last_voice_count, and render_to returns
RenderStore(k) ==
    /\ pc[k] = "store"
    /\ kd' = [kd EXCEPT ![k] = StoreLast(kd[k], VoiceCount(kd[k]))]
    /\ pc' = [pc EXCEPT ![k] = "idle"]
    /\ fresh' = fresh \cup {k}
    /\ UNCHANGED <<options, counter, hung, last, simd, lim, sum, pool>>

\* KeyData::render_to reading the amplitudes the voices have: the voices it
\* renders move to the levels after, those in ending end
RenderDecay(k, after, ending) ==
    /\ Idle(k)
    /\ LET amps == Amplitudes(kd[k])
           a    == RenderVoices(Decay(kd[k], after), amps, ending)
       IN  /\ counter' = FetchApply(counter, CounterChange(a, VoiceCount(a)))
           /\ kd' = [kd EXCEPT ![k] = StoreLast(a, VoiceCount(a))]
           /\ last' = DidRender(k, amps, ending)
    /\ fresh' = fresh \cup {k}
    /\ UNCHANGED <<options, hung, pc, simd, lim, sum, pool>>

\* The amplitudes (in units of 0.001) render_to can read from the voices of
\* key k; it reads them only on the path of render_with_priority
AmpChoices(k, amp_set) ==
    IF VoiceCount(kd[k]) <= kd[k].max_voices_per_frame
    THEN {[i \in 1..VoiceCount(kd[k]) |-> SILENCE_THRESHOLD + 1]}
    ELSE [1..VoiceCount(kd[k]) -> amp_set]

----------------------------------------------------------------------------
(* Steps of the specifications, over the inputs a specification allows *)

\* No voice, limiter, sum_simd call or buffer pool under study
NoDsp == [on |-> FALSE]

InitKeyData(keys, fades, per_frame) ==
    /\ options \in [fade_out_killing : fades, max_voices_per_frame : per_frame]
    /\ kd = [k \in keys |-> NewKeyData(options)]
    /\ counter = 0
    /\ hung = {}
    /\ fresh = {}
    /\ pc = [k \in keys |-> "idle"]
    /\ last = NoOp

InitWith(keys, fades, per_frame) ==
    /\ InitKeyData(keys, fades, per_frame)
    /\ simd = NoDsp /\ lim = NoDsp /\ sum = NoDsp /\ pool = NoDsp

CanPush(k, max_id, max_voices, n) ==
    kd[k].id_counter < max_id /\ VoiceCount(kd[k]) + n <= max_voices

OnIn(vels, max_group, layers, max_id, max_voices) ==
    \E k \in Keys, vel \in vels, n \in 0..max_group, m \in layers :
        hung = {} /\ CanPush(k, max_id, max_voices, n) /\ OnEvent(k, vel, n, m)

\* Off and AllOff with an empty spawn_voices_release are always delivered:
\* each voice is released once, which bounds the ids they use up
OffIn(layers, max_id, max_voices) ==
    \E k \in Keys, nrel \in 0..1, m \in layers :
        /\ hung = {}
        /\ nrel = 0 \/ CanPush(k, max_id, max_voices, nrel)
        /\ OffEvent(k, nrel, m)

\* An AllOff whose spawn_voices_release yields a voice either finds nothing
\* to release and pushes nothing, or never returns: it takes no id that a
\* later event could build on
AllOffIn(layers, max_id, max_voices) ==
    \E k \in Keys, nrel \in 0..1, m \in layers :
        /\ hung = {}
        /\ nrel = 0 \/ VoiceCount(kd[k]) + nrel <= max_voices
        /\ AllOffEvent(k, nrel, m)

AllKilledIn == \E k \in Keys : hung = {} /\ AllKilledEvent(k)

SetDamperIn == \E k \in Keys, d \in BOOLEAN : hung = {} /\ SetDamper(k, d)

RenderIn(amp_set) ==
    \E k \in Keys : \E amps \in AmpChoices(k, amp_set) :
        \E ending \in SUBSET RenderedIndices(kd[k], amps) :
            hung = {} /\ RenderTo(k, amps, ending)

----------------------------------------------------------------------------
(* Spec: one key, one audio thread, every event *)

Velocities == {10, 255}
Amps == {1, 2}
MaxLayers == {None, Some(1)}

Init == InitWith({1}, BOOLEAN, {2})

DoOn == OnIn(Velocities, MaxGroup, MaxLayers, MaxId, MaxVoices)
DoOff == OffIn(MaxLayers, MaxId, MaxVoices)
DoAllOff == AllOffIn(MaxLayers, MaxId, MaxVoices)
DoAllKilled == AllKilledIn
DoSetDamper == SetDamperIn
DoRender == RenderIn(Amps)

Next == DoOn \/ DoOff \/ DoAllOff \/ DoAllKilled \/ DoSetDamper \/ DoRender

Spec == Init /\ [][Next]_vars

----------------------------------------------------------------------------
(* SpecPush: push_voices and its stealing on one key: On events and render *)
(* ticks, with more velocities and budgets                                 *)

VelocitiesPush == {10, 50, 70}
MaxLayersPush == {None, Some(0), Some(2)}

InitPush == InitWith({1}, BOOLEAN, {64})

PushOn == OnIn(VelocitiesPush, MaxGroupPush, MaxLayersPush, MaxIdPush, MaxVoicesPush)
PushRender == RenderIn(Amps)

NextPush == PushOn \/ PushRender

SpecPush == InitPush /\ [][NextPush]_vars

----------------------------------------------------------------------------
(* SpecRender: render ticks on one key under several max_voices_per_frame, *)
(* with voices of three amplitudes                                         *)

MaxIdRender == 2
MaxVoicesRender == 3
MaxGroupRender == 2

VelocitiesRender == {10}
MaxLayersRender == {None}
AmpsRender == {1, 2, 3}

InitRender == InitWith({1}, {FALSE}, {0, 2})

RenderOn ==
    OnIn(VelocitiesRender, MaxGroupRender, MaxLayersRender, MaxIdRender, MaxVoicesRender)
RenderOff == OffIn(MaxLayersRender, MaxIdRender, MaxVoicesRender)
RenderAllKilled == AllKilledIn
RenderTick == RenderIn(AmpsRender)

NextRender == RenderOn \/ RenderOff \/ RenderAllKilled \/ RenderTick

SpecRender == InitRender /\ [][NextRender]_vars

----------------------------------------------------------------------------
(* SpecKeys: two keys of one channel sharing the counter, one audio thread *)

MaxIdKeys == 1
MaxVoicesKeys == 2
MaxGroupKeys == 2

VelocitiesKeys == {50}
MaxLayersKeys == {None, Some(1)}
AmpsKeys == {1, 2}

InitKeys == InitWith({1, 2}, BOOLEAN, {1})

KeysOn == OnIn(VelocitiesKeys, MaxGroupKeys, MaxLayersKeys, MaxIdKeys, MaxVoicesKeys)
KeysOff == OffIn(MaxLayersKeys, MaxIdKeys, MaxVoicesKeys)
KeysAllOff == AllOffIn(MaxLayersKeys, MaxIdKeys, MaxVoicesKeys)
KeysAllKilled == AllKilledIn
KeysSetDamper == SetDamperIn
KeysRender == RenderIn(AmpsKeys)

NextKeys ==
    KeysOn \/ KeysOff \/ KeysAllOff \/ KeysAllKilled \/ KeysSetDamper \/ KeysRender

SpecKeys == InitKeys /\ [][NextKeys]_vars

----------------------------------------------------------------------------
(* SpecThreads: two keys rendered by two threads; the steps of render_to   *)
(* interleave, and events reach a key between its render_to calls          *)

ThreadOn ==
    \E k \in Keys, vel \in VelocitiesKeys, n \in 0..MaxGroupKeys, m \in MaxLayersKeys :
        /\ k \notin hung
        /\ CanPush(k, MaxIdKeys, MaxVoicesKeys, n)
        /\ OnEvent(k, vel, n, m)

ThreadAllKilled == \E k \in Keys : k \notin hung /\ AllKilledEvent(k)

ThreadRenderBegin ==
    \E k \in Keys : \E amps \in AmpChoices(k, AmpsKeys) :
        \E ending \in SUBSET RenderedIndices(kd[k], amps) :
            k \notin hung /\ RenderBegin(k, amps, ending)

ThreadRenderFetch == \E k \in Keys : RenderFetch(k)

ThreadRenderStore == \E k \in Keys : RenderStore(k)

NextThreads ==
    \/ ThreadOn \/ ThreadAllKilled
    \/ ThreadRenderBegin \/ ThreadRenderFetch \/ ThreadRenderStore

SpecThreads == InitKeys /\ [][NextThreads]_vars

----------------------------------------------------------------------------
(* SpecDamper: the damper cycle, run on each of two keys: set_damper(true), *)
(* On(100) with one voice per attack, Off, set_damper(false), with render  *)
(* ticks in between.  The note is sustained while it is not released: its  *)
(* voice ends in a tick only once it is releasing, and the envelope of a   *)
(* releasing voice completes after finitely many ticks.                    *)

VelocitiesDamper == {100}

InitDamper == InitWith({1, 2}, {FALSE}, {64})

DamperPress ==
    \E k \in Keys :
        /\ hung = {} /\ ~kd[k].damper_held /\ kd[k].id_counter = 0
        /\ SetDamper(k, TRUE)

DamperOn ==
    \E k \in Keys, vel \in VelocitiesDamper :
        /\ hung = {} /\ kd[k].damper_held /\ kd[k].id_counter = 0
        /\ OnEvent(k, vel, 1, None)

DamperOff ==
    \E k \in Keys :
        /\ hung = {} /\ kd[k].damper_held /\ kd[k].id_counter = 1
        /\ kd[k].held_by_damper = <<>>
        /\ OffEvent(k, 1, None)

DamperLift ==
    \E k \in Keys :
        /\ hung = {} /\ kd[k].damper_held /\ kd[k].id_counter = 1
        /\ kd[k].held_by_damper # <<>>
        /\ SetDamper(k, FALSE)

\* A render tick in which no voice ends
DamperTick ==
    \E k \in Keys : \E amps \in AmpChoices(k, Amps) :
        hung = {} /\ RenderTo(k, amps, {})

\* The render tick in which the envelopes of the releasing voices of key k
\* complete
EnvelopeEnds(k) ==
    LET rel == {i \in 1..Len(kd[k].buffer) : kd[k].buffer[i].releasing}
    IN  /\ hung = {} /\ rel # {}
        /\ \E amps \in AmpChoices(k, Amps) : RenderTo(k, amps, rel)

DamperEnvelopeEnds == \E k \in Keys : EnvelopeEnds(k)

NextDamper ==
    \/ DamperPress \/ DamperOn \/ DamperOff \/ DamperLift
    \/ DamperTick \/ DamperEnvelopeEnds

SpecDamper ==
    /\ InitDamper /\ [][NextDamper]_vars
    /\ \A k \in {1, 2} : WF_vars(EnvelopeEnds(k))

----------------------------------------------------------------------------
(* SpecReap: one key with a cap of one voice per tick, its render_to       *)
(* called again and again.  A voice's envelope moves only when the voice   *)
(* is rendered: a rendered voice keeps its level or falls to a lower one,  *)
(* down to the silence threshold, and a releasing or killed voice that is  *)
(* rendered either ends in that call or falls to a lower level, so it ends *)
(* after at most AttackAmplitude renders.                                  *)

MaxIdReap == 1
MaxVoicesReap == 2
MaxGroupReap == 2

VelocitiesReap == {100}
MaxLayersReap == {None}
Levels == SILENCE_THRESHOLD..AttackAmplitude

InitReap == InitWith({1}, BOOLEAN, {1})

ReapOn == OnIn(VelocitiesReap, MaxGroupReap, MaxLayersReap, MaxIdReap, MaxVoicesReap)

ReapOff ==
    \E k \in Keys : hung = {} /\ OffEvent(k, 0, None)

ReapAllKilled == AllKilledIn

ReapTick ==
    \E k \in Keys :
        LET amps == Amplitudes(kd[k])
            sel  == IF VoiceCount(kd[k]) = 0 THEN {} ELSE RenderedIndices(kd[k], amps)
        IN  \E after \in [sel -> Levels], ending \in SUBSET sel :
                /\ hung = {}
                /\ \A i \in sel :
                      /\ after[i] <= amps[i]
                      /\ (kd[k].buffer[i].releasing \/ kd[k].buffer[i].killed)
                            => (i \in ending \/ after[i] < amps[i])
                /\ RenderDecay(k, after, ending)

NextReap == ReapOn \/ ReapOff \/ ReapAllKilled \/ ReapTick

SpecReap == InitReap /\ [][NextReap]_vars /\ WF_vars(ReapTick)

----------------------------------------------------------------------------
(* SpecSimd: one SIMD voice, mono or stereo, of some lane width, rendered   *)
(* into buffers of every length up to MaxLenSimd floats.  A write past the *)
(* end of a buffer is undefined behaviour: what the program does from then *)
(* on is not defined, and the model follows the voice no further (ub).     *)

MaxLenSimd == 5
MaxTotalSimd == 8

Widths == {1, 2, 4}

InitSimd ==
    /\ InitKeyData({}, {FALSE}, {1})
    /\ \E stereo \in BOOLEAN, width \in Widths :
          simd = [on |-> TRUE, v |-> NewSimdVoice(stereo, width),
                  len |-> 0, writes |-> <<>>, stream |-> <<>>, ub |-> FALSE]
    /\ lim = NoDsp /\ sum = NoDsp /\ pool = NoDsp

\* One render_to call on the voice; stream collects what the calls added to
\* the concatenation of their buffers
SimdRender ==
    \E buf_len \in 0..MaxLenSimd :
        /\ simd.on /\ ~simd.ub
        /\ Len(simd.stream) + buf_len <= MaxTotalSimd
        /\ LET r == SimdRenderTo(simd.v, buf_len)
           IN  simd' = [on |-> TRUE, v |-> r.v, len |-> buf_len, writes |-> r.writes,
                        stream |-> simd.stream \o Added(r.writes, buf_len),
                        ub |-> OutOfBounds(r.writes, buf_len)]
        /\ UNCHANGED <<keyvars, lim, sum, pool>>

NextSimd == SimdRender

SpecSimd == InitSimd /\ [][NextSimd]_vars

----------------------------------------------------------------------------
(* SpecSum: one sum_simd call on slices of every pair of lengths *)

MaxLenSum == 5

SourceValues == {1, 2}
TargetValues == {0, 4}
WidthsSum == {1, 2}

SeqsUpTo(S, n) == UNION {[1..m -> S] : m \in 0..n}

InitSum ==
    /\ InitKeyData({}, {FALSE}, {1})
    /\ simd = NoDsp /\ lim = NoDsp /\ pool = NoDsp
    /\ \E source \in SeqsUpTo(SourceValues, MaxLenSum),
          len \in 0..MaxLenSum, t \in TargetValues,
          debug \in BOOLEAN, width \in WidthsSum :
            sum = [on |-> TRUE, called |-> FALSE, source |-> source,
                   target |-> [i \in 1..len |-> t], debug |-> debug, width |-> width,
                   out |-> <<>>, panicked |-> FALSE]

SumCall ==
    /\ sum.on /\ ~sum.called
    /\ LET r == SumSimd(sum.source, sum.target, sum.debug, sum.width)
       IN  sum' = [sum EXCEPT !.called = TRUE, !.out = r.target,
                              !.panicked = r.panicked]
    /\ UNCHANGED <<keyvars, simd, lim, pool>>

NextSum == SumCall

SpecSum == InitSum /\ [][NextSum]_vars

----------------------------------------------------------------------------
(* SpecLimiter: VolumeLimiter::limit calls on buffers of f32 samples *)

MaxLenLimiter == 3
MaxTotalLimiter == 4
MaxChannels == 2

\* 0.0, 0.5, -2.0, 100.0, the infinities and NaN
SampleValues == {Fin(0), Fin(500), Fin(0 - 2000), Fin(100000), PInf, NInf, NaN}

InitLimiter ==
    /\ InitKeyData({}, {FALSE}, {1})
    /\ simd = NoDsp /\ sum = NoDsp /\ pool = NoDsp
    /\ \E channel_count \in 0..MaxChannels :
          lim = [on |-> TRUE, vl |-> NewVolumeLimiter(channel_count),
                 input |-> <<>>, out |-> <<>>, total |-> 0, panicked |-> FALSE]

LimitCall ==
    \E sample \in SeqsUpTo(SampleValues, MaxLenLimiter) :
        /\ lim.on /\ ~lim.panicked
        /\ lim.total + Len(sample) <= MaxTotalLimiter
        /\ LET r == VolumeLimit(lim.vl, sample)
           IN  lim' = [on |-> TRUE, vl |-> r.vl, input |-> sample, out |-> r.sample,
                       total |-> lim.total + Len(sample), panicked |-> r.panicked]
        /\ UNCHANGED <<keyvars, simd, sum, pool>>

NextLimiter == LimitCall

SpecLimiter == InitLimiter /\ [][NextLimiter]_vars

----------------------------------------------------------------------------
(* SpecPool: one thread taking buffers from the pool and giving back the   *)
(* buffers it took, in any order, after rendering into them.  The thread   *)
(* holds up to MaxHeldPool buffers at a time; it asks for sizes up to      *)
(* MaxSizePool while at most MaxVariedPool buffers exist and for size 1    *)
(* beyond that.  A length beyond the capacity is undefined behaviour, and  *)
(* the model follows the thread no further (ub).                           *)

MaxSizePool == 3
MaxVariedPool == 1
MaxHeldPool == 17

\* The buffers a thread holds, kept in one order whatever the order of the calls
BufKey(buf) == buf.cap * 100 + buf.len * 2 + (IF buf.zero THEN 1 ELSE 0)

Hold(held, buf) ==
    LET n == Cardinality({i \in 1..Len(held) : BufKey(held[i]) <= BufKey(buf)})
    IN  SubSeq(held, 1, n) \o <<buf>> \o SubSeq(held, n + 1, Len(held))

\* The thread has rendered into the buffer
Written(buf) == [buf EXCEPT !.zero = (buf.len = 0)]

InitPool ==
    /\ InitKeyData({}, {FALSE}, {1})
    /\ simd = NoDsp /\ lim = NoDsp /\ sum = NoDsp
    /\ pool = [on |-> TRUE, bufs |-> <<>>, held |-> <<>>, op |-> "new", size |-> 0,
               buf |-> VecZeros(0), ub |-> FALSE]

PoolGet ==
    \E size \in 0..MaxSizePool :
        /\ pool.on /\ ~pool.ub
        /\ Len(pool.held) < MaxHeldPool
        /\ size = 1 \/ Len(pool.bufs) + Len(pool.held) <= MaxVariedPool
        /\ \E o \in GetRenderBuffer(pool.bufs, size) :
              pool' = [on |-> TRUE, bufs |-> o.bufs,
                       held |-> IF o.ub THEN pool.held ELSE Hold(pool.held, o.buf),
                       op |-> "get", size |-> size, buf |-> o.buf, ub |-> o.ub]
        /\ UNCHANGED <<keyvars, simd, lim, sum>>

PoolReturn ==
    \E i \in 1..Len(pool.held) :
        /\ pool.on /\ ~pool.ub
        /\ pool' = [on |-> TRUE,
                    bufs |-> ReturnRenderBuffer(pool.bufs, Written(pool.held[i])),
                    held |-> SubSeq(pool.held, 1, i - 1)
                             \o SubSeq(pool.held, i + 1, Len(pool.held)),
                    op |-> "return", size |-> 0, buf |-> VecZeros(0),
                    ub |-> FALSE]
        /\ UNCHANGED <<keyvars, simd, lim, sum>>

NextPool == PoolGet \/ PoolReturn

SpecPool == InitPool /\ [][NextPool]_vars

----------------------------------------------------------------------------
(* Properties *)

Fade == options.fade_out_killing
Buf == kd[1].buffer

\* The sum of f[x] over x in S
RECURSIVE SumOver(_, _)
SumOver(S, f) ==
    IF S = {} THEN 0
    ELSE LET x == CHOOSE y \in S : TRUE IN f[x] + SumOver(S \ {x}, f)

\* C1: once render_to has returned on every key and no event has arrived
\* since, the shared counter equals the sum of voice_count() over the keys.
C1_CounterIsSumOfVoiceCounts ==
    fresh = Keys => counter = SumOver(Keys, [k \in Keys |-> VoiceCount(kd[k])])

\* Both keys hold voices after a tick that followed events on both of them
C1_Witness ==
    /\ fresh = Keys
    /\ VoiceCount(kd[1]) = 2 /\ VoiceCount(kd[2]) = 1
    /\ counter = 3
    /\ \E i \in 1..2 : kd[1].buffer[i].killed

\* C2: whenever no update_voice_counter call is in progress the counter is
\* the sum of last_voice_count over the keys, and the counter never wraps
\* below zero, in every interleaving of the threads' steps.
C2_NoDriftNoWrap ==
    /\ counter >= 0
    /\ (\A k \in Keys : pc[k] = "idle") =>
           counter = SumOver(Keys, [k \in Keys |-> kd[k].last_voice_count])

\* One thread has applied its change and not yet stored last_voice_count
\* while the other is about to apply a decrease
C2_Witness ==
    /\ pc[1] = "store" /\ pc[2] = "fetch"
    /\ CounterChange(kd[2], VoiceCount(kd[2])) < 0
    /\ CounterChange(kd[1], VoiceCount(kd[1])) > 0

\* C3: right after render_to returns no voice with ended() stays in the
\* key's buffer, and the voices that reported ended in this tick are the
\* ones that left it, on the render-all path and on the priority path.
C3_EndedVoicesReapedInSameTick ==
    [][last'.op = "render" =>
          /\ \A i \in 1..Len(kd'[1].buffer) : ~kd'[1].buffer[i].ended
          /\ VoiceCount(kd'[1]) = VoiceCount(kd[1]) - last'.ret.v]_vars

\* A tick on the priority path (a voice was left unrendered) in which a
\* voice ended, with voices remaining afterwards
C3_Witness ==
    /\ last.op = "render"
    /\ last.ret.v >= 1
    /\ VoiceCount(kd[1]) >= 1
    /\ last.n < VoiceCount(kd[1]) + last.ret.v

\* C4: push_voices returns for every buffer, iterator and max_voices: no
\* call is left spinning in its stealing loop.
C4_PushVoicesTerminates == hung = {}

\* push_voices was called by the event performed last, and returned
PushReturned ==
    /\ hung = {}
    /\ last.op = "on" \/ (last.op = "off" /\ last.ret.some)

\* C5: when push_voices(iter, Some(m)) returns, the active count (voices not
\* killed under fade_out_killing, the buffer length otherwise) is at most m.
C5_ActiveCountWithinBudget ==
    (PushReturned /\ last.max.some) => TrimCount(Buf, Fade) <= last.max.v

\* A push that had to steal to get within its budget
C5_Witness ==
    /\ PushReturned /\ last.op = "on" /\ last.max.some /\ last.n >= 1
    /\ last.ret.v >= 1
    /\ Fade
    /\ Len(Buf) > last.max.v

\* C6: the voices a push_voices call appended are all still at the tail of
\* the buffer when it returns, and none of them has been killed.
C6_PushedGroupImmune ==
    (last.op = "on" /\ hung = {}) =>
        /\ Len(Buf) >= last.n
        /\ \A i \in (Len(Buf) - last.n + 1)..Len(Buf) :
              Buf[i] = NewVoice(kd[1].id_counter, last.vel)

\* The pushed group was of the lowest velocity while another group was
\* stolen, and an older, killed voice carries the id of the pushed group
C6_Witness ==
    /\ last.op = "on" /\ hung = {} /\ last.n >= 1 /\ last.max.some
    /\ last.ret.v >= 1
    /\ last.vel = 10
    /\ \E i \in 1..Len(Buf) : Buf[i].killed /\ Buf[i].id = kd[1].id_counter

\* What one trimming did, read off the buffers before and after a push:
\* the ids that had a voice alive, those of them that were stolen, the
\* velocity that stood for a group and the index of its first live voice
LiveIds(pre) == {pre[i].id : i \in {j \in 1..Len(pre) : ~pre[j].killed}}

StolenIds(pre, post) ==
    {g \in LiveIds(pre) : \A j \in 1..Len(post) : post[j].id = g => post[j].killed}

FirstLive(pre, g) == SetMin({i \in 1..Len(pre) : pre[i].id = g /\ ~pre[i].killed})

Pushed == last'.op = "on" /\ hung' = {}

\* The buffers push_voices can leave after the pushes of the sequence
\* pushes, each [vel, n], all with the same max_voices
RECURSIVE PushEach(_, _, _, _)
PushEach(vbs, pushes, max_voices, fade) ==
    IF pushes = <<>> THEN vbs
    ELSE PushEach(
            UNION {{o.vb : o \in {x \in PushVoices(vb, Head(pushes).vel, Head(pushes).n,
                                                   max_voices, fade) : ~x.hung}} :
                      vb \in vbs},
            Tail(pushes), max_voices, fade)

\* C7: the groups a push steals are of the lowest velocities among the
\* groups that were open to stealing: no group left alive stood for a lower
\* velocity than a stolen one.  And with max_voices = 4, no fade-out
\* killing and single voices pushed with velocities 30, 40, 20, 50, 60, the
\* buffer holds the velocities 30, 40, 50, 60 after the fifth push.
C7_StealsLowestVelocity ==
    /\ [][Pushed =>
            \A g \in StolenIds(Buf, Buf') : \A h \in LiveIds(Buf) \ StolenIds(Buf, Buf') :
                Buf[FirstLive(Buf, g)].vel <= Buf[FirstLive(Buf, h)].vel]_vars
    /\ \A vb \in PushEach({NewVoiceBuffer},
                          [i \in 1..5 |-> [vel |-> <<30, 40, 20, 50, 60>>[i], n |-> 1]],
                          Some(4), FALSE) :
          [i \in 1..Len(vb.buffer) |-> vb.buffer[i].vel] = <<30, 40, 50, 60>>

\* A push stole the velocity-10 group and left the older velocity-50 group alive
C7_Witness ==
    /\ last.op = "on" /\ hung = {} /\ last.ret.v = 1 /\ last.vel = 70 /\ last.n = 1
    /\ Len(Buf) = 3
    /\ Buf[1].vel = 50 /\ ~Buf[1].killed
    /\ Buf[2].vel = 10 /\ Buf[2].killed

\* C8: among groups of the same lowest velocity the one whose first voice
\* comes earliest in the buffer is stolen.
C8_TieStealsEarliest ==
    [][Pushed =>
          \A g \in StolenIds(Buf, Buf') : \A h \in LiveIds(Buf) \ StolenIds(Buf, Buf') :
              Buf[FirstLive(Buf, g)].vel = Buf[FirstLive(Buf, h)].vel
                  => FirstLive(Buf, g) < FirstLive(Buf, h)]_vars

\* The scenario of C9: fade_out_killing, group A (two voices, velocity 50)
\* and group B (one voice, velocity 10) alive in the buffer, and a push of
\* velocity 70 with max_voices = 2
C9_Scenario ==
    /\ Fade
    /\ Len(Buf) = 3
    /\ Buf[1] = NewVoice(Buf[1].id, 50)
    /\ Buf[2] = Buf[1]
    /\ Buf[3] = NewVoice(Buf[3].id, 10) /\ Buf[3].id # Buf[1].id
    /\ last'.op = "on" /\ last'.vel = 70 /\ last'.max = Some(2)

Releasable(buffer) ==
    {i \in 1..Len(buffer) : ~(buffer[i].releasing \/ buffer[i].killed)}

\* An Off with the damper up whose spawn_voices_release yields nothing and
\* whose push has no budget: the step is that of release_next_voice
OffReleases ==
    /\ last'.op = "off" /\ last'.n = 0 /\ ~last'.max.some
    /\ ~kd[1].damper_held

\* C10: with the damper up, release_next_voice signals Standard release on
\* exactly the voices of the oldest group with a voice neither releasing
\* nor killed, returns the velocity of the first such voice and changes no
\* other voice; without such a voice it returns None and changes nothing.
\* The group released is the one pushed earliest among those not yet released.
C10_ReleasesOldestGroup ==
    [][OffReleases =>
          IF Releasable(Buf) = {}
          THEN last'.ret = None /\ kd'[1] = kd[1]
          ELSE LET f == SetMin(Releasable(Buf))
                   G == Buf[f].id
               IN  /\ last'.ret = Some(Buf[f].vel)
                   /\ Buf' = [i \in 1..Len(Buf) |->
                                IF i \in Releasable(Buf) /\ Buf[i].id = G
                                THEN ReleaseStandard(Buf[i]) ELSE Buf[i]]
                   /\ \A i \in Releasable(Buf) : G <= Buf[i].id
                   /\ \A i \in Releasable(Buf) : Buf[i].id = G \/ i \in Releasable(Buf')]_vars

\* An Off released the two voices of the older group and left the younger one
C10_Witness ==
    /\ last.op = "off" /\ last.n = 0 /\ ~last.max.some /\ last.ret = Some(10)
    /\ ~kd[1].damper_held /\ hung = {}
    /\ Len(Buf) = 3
    /\ Buf[1].id = Buf[2].id /\ Buf[3].id # Buf[1].id
    /\ Buf[1] = ReleaseStandard(NewVoice(Buf[1].id, 10)) /\ Buf[2] = Buf[1]
    /\ Buf[3] = NewVoice(Buf[3].id, 255)

\* The voices of a buffer with group id g that are in Standard release
\* (releasing and not killed)
StandardReleased(buffer, g) ==
    Cardinality({i \in 1..Len(buffer) :
                    buffer[i].id = g /\ buffer[i].releasing /\ ~buffer[i].killed})

IdsOf(buffer) == {buffer[i].id : i \in 1..Len(buffer)}

\* The voices the damper-held branch of release_next_voice can pick
HoldCandidates(vb) ==
    {i \in 1..Len(vb.buffer) :
        /\ ~vb.buffer[i].releasing /\ ~vb.buffer[i].killed
        /\ ~Contains(vb.held_by_damper, vb.buffer[i].id)}

\* C11: while damper_held is true an Off or AllOff (one release_next_voice
\* call, returning None) leaves every voice as it was and appends to
\* held_by_damper the group id of the first voice in insertion order that is
\* not releasing, not killed and not already held, and nothing when there
\* is no such voice; and no step between set_damper(true) and the next
\* set_damper(false) puts a voice into Standard release.
C11_DamperDefersRelease ==
    [][/\ (last'.op \in {"off", "alloff"} /\ kd[1].damper_held) =>
             /\ last'.ret = None
             /\ hung' = {}
             /\ Buf' = Buf
             /\ kd'[1].id_counter = kd[1].id_counter
             /\ kd'[1].held_by_damper =
                    IF HoldCandidates(kd[1]) = {} THEN kd[1].held_by_damper
                    ELSE Append(kd[1].held_by_damper,
                                Buf[SetMin(HoldCandidates(kd[1]))].id)
       /\ (kd[1].damper_held /\ kd'[1].damper_held) =>
             \A g \in IdsOf(Buf') : StandardReleased(Buf', g) <= StandardReleased(Buf, g)]_vars

\* A second Off under the damper skipped the group already held and added
\* the younger group; both groups are still sounding unreleased
C11_Witness ==
    /\ last.op = "off" /\ kd[1].damper_held /\ hung = {}
    /\ kd[1].held_by_damper = <<1, 2>>
    /\ Len(Buf) >= 2
    /\ \A i \in 1..Len(Buf) : ~Buf[i].releasing
    /\ Buf[1].id = 1 /\ Buf[Len(Buf)].id = 2

\* C12: set_damper(d) with the damper held and d false puts into Standard
\* release exactly the voices whose group id is in held_by_damper, leaves
\* the other voices as they were and empties held_by_damper; for every
\* other pair of old and new damper state the buffer and held_by_damper are
\* unchanged.  damper_held is d afterwards in every case.
C12_SetDamperReleasesHeld ==
    [][last'.op = "damper" =>
          /\ kd'[1].damper_held = (last'.ret = Some(1))
          /\ IF kd[1].damper_held /\ last'.ret = Some(0)
             THEN /\ Buf' = [i \in 1..Len(Buf) |->
                               IF Contains(kd[1].held_by_damper, Buf[i].id)
                               THEN ReleaseStandard(Buf[i]) ELSE Buf[i]]
                  /\ kd'[1].held_by_damper = <<>>
             ELSE /\ Buf' = Buf
                  /\ kd'[1].held_by_damper = kd[1].held_by_damper]_vars

\* Lifting the damper released the held older group and left the group
\* that was not held unreleased
C12_Witness ==
    /\ last.op = "damper" /\ last.ret = Some(0) /\ last.n = 1
    /\ ~kd[1].damper_held /\ kd[1].held_by_damper = <<>>
    /\ Len(Buf) = 2
    /\ Buf[1].id = 1 /\ Buf[1].releasing /\ ~Buf[1].killed
    /\ Buf[2].id = 2 /\ ~Buf[2].releasing

\* C13: in the damper cycle on a key, as long as the damper is held after
\* the On the buffer holds exactly one voice and that voice is not
\* releasing (through the ticks before and after the Off); the only step in
\* which the voice becomes releasing is the set_damper(false) on its key;
\* and once the damper has been lifted the buffer eventually becomes empty.
C13_DamperCycle ==
    /\ [](\A k \in {1, 2} :
            (kd[k].damper_held /\ kd[k].id_counter = 1) =>
                (Len(kd[k].buffer) = 1 /\ ~kd[k].buffer[1].releasing))
    /\ [][\A k \in {1, 2} :
            (/\ Len(kd[k].buffer) = 1 /\ Len(kd'[k].buffer) = 1
             /\ ~kd[k].buffer[1].releasing /\ kd'[k].buffer[1].releasing) =>
                (last'.op = "damper" /\ last'.key = k /\ last'.ret = Some(0))]_vars
    /\ \A k \in {1, 2} :
          (~kd[k].damper_held /\ kd[k].id_counter = 1) ~> (kd[k].buffer = <<>>)

\* The cycle has run to its end on key 1: the voice released by lifting the
\* damper has ended in a tick and has been reaped
C13_Witness ==
    /\ last.op = "render" /\ last.key = 1 /\ last.ret = Some(1)
    /\ ~kd[1].damper_held /\ kd[1].id_counter = 1
    /\ kd[1].buffer = <<>> /\ kd[1].held_by_damper = <<>>

\* C14: id_counter never decreases, and every push_voices call hands out an
\* id above every id the buffer handed out before (the id a push hands out
\* is the value of id_counter when it returns).
C14_IdCounterIncreasing ==
    [][/\ kd'[1].id_counter >= kd[1].id_counter
       /\ (last'.op = "on" /\ hung' = {}) => kd'[1].id_counter > kd[1].id_counter]_vars

\* C15: every group id in held_by_damper is the group id of a voice in the
\* buffer.
C15_HeldIdsInBuffer ==
    \A i \in 1..Len(kd[1].held_by_damper) : kd[1].held_by_damper[i] \in IdsOf(Buf)

\* C16: after an AllKilled event every voice that was in the buffer is
\* still there and killed if fade_out_killing is set, the buffer is empty
\* otherwise, and held_by_damper is empty in both cases.
C16_KillAllClearsHeld ==
    [][last'.op = "allkilled" =>
          /\ IF Fade
             THEN Buf' = [i \in 1..Len(Buf) |-> ReleaseKill(Buf[i])]
             ELSE Buf' = <<>>
          /\ kd'[1].held_by_damper = <<>>]_vars

\* C17: the voices sharing a group id occupy consecutive positions of the
\* buffer.
C17_GroupsContiguous ==
    \A i \in 1..Len(Buf), j \in 1..Len(Buf) :
        (i < j /\ Buf[i].id = Buf[j].id) => \A m \in i..j : Buf[m].id = Buf[i].id

\* The group ids of a buffer in the order of their first voices
RECURSIVE GroupOrder(_)
GroupOrder(buffer) ==
    IF buffer = <<>> THEN <<>>
    ELSE <<Head(buffer).id>> \o
         GroupOrder(SelectSeq(Tail(buffer), LAMBDA v : v.id # Head(buffer).id))

\* C18: an AllOff with the damper up on a buffer of several groups, none
\* of them releasing (pushes without budget), returns; every voice that was
\* in the buffer is then in Standard release; spawn_voices_release has been
\* invoked once per group, so the buffer has grown by one spawn per group;
\* and release_next_voice called next returns None.
C18_AllOffReleasesEveryGroup ==
    [][(/\ last'.op = "alloff" /\ ~last'.max.some
        /\ ~kd[1].damper_held
        /\ Len(GroupOrder(Buf)) >= 2
        /\ \A i \in 1..Len(Buf) : ~Buf[i].releasing) =>
          /\ hung' = {}
          /\ \A i \in 1..Len(Buf) : Buf'[i] = ReleaseStandard(Buf[i])
          /\ Len(Buf') = Len(Buf) + Len(GroupOrder(Buf)) * last'.n
          /\ ReleaseNextVoice(kd'[1]).ret = None]_vars

\* A buffer without the voices at the indices E
RemoveIndices(buffer, E) ==
    LET kept == SelectSeq([i \in 1..Len(buffer) |-> <<i, buffer[i]>>],
                          LAMBDA p : p[1] \notin E)
    IN  [i \in 1..Len(kept) |-> kept[i][2]]

\* The indices whose amplitude is above the silence threshold
Audible(amps) == {i \in 1..Len(amps) : amps[i] > SILENCE_THRESHOLD}

\* i comes before j in the order of priority: louder, or as loud and earlier
Before(amps, i, j) == amps[i] > amps[j] \/ (amps[i] = amps[j] /\ i < j)

\* C19: a render_to call on a buffer of at most max_voices_per_frame voices
\* renders every voice; on a larger buffer it renders min(cap, s) of the s
\* voices whose amplitude is above the threshold, each of them ahead of
\* every audible voice left out (louder, or as loud and earlier in the
\* buffer), so never more than max_voices_per_frame; and the voices not
\* selected are left as they were: the buffer afterwards is the old one
\* without some of the rendered voices, those that ended.
C19_RendersLoudestWithinCap ==
    [][last'.op = "render" =>
          LET n   == Len(Buf)
              cap == kd[1].max_voices_per_frame
              sel == last'.sel
              a   == last'.amps
          IN  /\ n <= cap => sel = 1..n
              /\ n > cap =>
                    /\ sel \subseteq Audible(a)
                    /\ Cardinality(sel) =
                          (IF Cardinality(Audible(a)) <= cap
                           THEN Cardinality(Audible(a)) ELSE cap)
                    /\ \A i \in sel : \A j \in Audible(a) \ sel : Before(a, i, j)
              /\ \E E \in SUBSET sel :
                    /\ Cardinality(E) = last'.ret.v
                    /\ Buf' = RemoveIndices(Buf, E)]_vars

\* An overloaded tick with a cap of 2 on three audible voices, the first
\* and third equally loud: the second and the first were rendered, and one
\* of them ended
C19_Witness ==
    /\ last.op = "render" /\ kd[1].max_voices_per_frame = 2
    /\ last.amps = <<2, 3, 2>> /\ last.sel = {1, 2}
    /\ last.ret = Some(1) /\ Len(Buf) = 2

\* A tick with max_voices_per_frame = 1 on a buffer of more than one voice
Cap1Tick ==
    /\ last'.op = "render"
    /\ kd[1].max_voices_per_frame = 1 /\ Len(Buf) > 1

\* C20 as stated: every such tick renders exactly one voice.
C20_AsStated == [][Cap1Tick => last'.n = 1]_vars

\* C20 amended: such a tick renders at most one voice: the loudest voice
\* (the earliest of them) when some voice has an amplitude above the
\* silence threshold, and no voice at all when every amplitude is at or
\* below it.
C20_AtMostOneVoice ==
    [][Cap1Tick =>
          IF Audible(last'.amps) = {}
          THEN last'.sel = {}
          ELSE \E i \in Audible(last'.amps) :
                  /\ last'.sel = {i}
                  /\ \A j \in Audible(last'.amps) \ {i} : Before(last'.amps, i, j)]_vars

\* Three voices under a cap of 1, the second and third equally loud and
\* the first silent: the second alone was rendered
C20_Witness ==
    /\ last.op = "render" /\ kd[1].max_voices_per_frame = 1
    /\ last.amps = <<1, 3, 3>> /\ last.sel = {2}

CeilDiv(a, b) == (a + b - 1) \div b

\* The frames the render_to calls on the voice have covered so far
SimdFrames == Len(simd.stream) \div FrameSize(simd.v)

\* C21: whatever the calls were (none of them past the end of its buffer,
\* so each of a whole number of frames), they added to the concatenation of
\* their buffers exactly what one render_to call of the total length on a
\* fresh voice adds, slot by slot, and left the voice where that call
\* leaves it; and that is the lanes of the generator's blocks in order,
\* each added once: frame f receives lane f mod W of block f div W + 1.
C21_CarryOver ==
    (simd.on /\ ~simd.ub) =>
        LET fresh_v == NewSimdVoice(simd.v.stereo, simd.v.width)
            one     == SimdRenderTo(fresh_v, Len(simd.stream))
            fs      == FrameSize(simd.v)
        IN  /\ simd.stream = Added(one.writes, Len(simd.stream))
            /\ simd.v.pulled = one.v.pulled
            /\ simd.v.remainder_pos = one.v.remainder_pos
            /\ \A p \in 1..Len(simd.stream) :
                  simd.stream[p] =
                      << <<((p - 1) \div fs) \div simd.v.width + 1,
                           ((p - 1) \div fs) % simd.v.width,
                           (p - 1) % fs>> >>

\* A stereo voice of width 4 whose first block went out over several
\* calls, the last of them a single frame that used up the remainder
C21_Witness ==
    /\ simd.on /\ ~simd.ub /\ simd.v.stereo /\ simd.v.width = 4
    /\ Len(simd.stream) = 8 /\ simd.len = 2
    /\ simd.v.pulled = 1 /\ simd.v.remainder_pos = 4

\* C22 as stated: after calls on a fresh voice (remainder position W)
\* covering N frames, next_sample has been called ceil((N + W) / W) times.
C22_AsStated ==
    (simd.on /\ ~simd.ub /\ SimdFrames > 0) =>
        simd.v.pulled = CeilDiv(SimdFrames + simd.v.width, simd.v.width)

\* C22 amended: a call covering n frames on a voice at remainder position
\* pos (1..W) calls next_sample ceil((n + pos) / W) - 1 times, so calls
\* covering N frames on a fresh voice call it ceil(N / W) times.
C22_PullCount ==
    /\ [](simd.on /\ ~simd.ub =>
            /\ simd.v.remainder_pos \in 1..simd.v.width
            /\ simd.v.pulled = CeilDiv(SimdFrames, simd.v.width))
    /\ [][(simd.on /\ ~simd'.ub) =>
            simd'.v.pulled - simd.v.pulled =
                CeilDiv(simd'.len \div FrameSize(simd.v) + simd.v.remainder_pos,
                        simd.v.width) - 1]_vars

\* Five frames of a mono voice of width 4 in several calls took two blocks
C22_Witness ==
    /\ simd.on /\ ~simd.ub /\ ~simd.v.stereo /\ simd.v.width = 4
    /\ Len(simd.stream) = 5 /\ simd.len = 2
    /\ simd.v.pulled = 2 /\ simd.v.remainder_pos = 1

\* C30: a render_to call on a buffer of any length writes only to indices
\* below the length of the buffer, reads only lanes below W, leaves
\* remainder_pos within 0..W, and with a length of 0 pulls nothing and
\* leaves the voice as it was.
C30_WritesWithinBuffer ==
    [][simd.on =>
          /\ \A j \in 1..Len(simd'.writes) :
                /\ simd'.writes[j].idx < simd'.len
                /\ simd'.writes[j].lane < simd.v.width
          /\ simd'.v.remainder_pos \in 0..simd.v.width
          /\ simd'.len = 0 => simd'.v = simd.v]_vars

\* The other key of the two
Other(k) == CHOOSE j \in Keys : j # k

\* C23 as stated: with two keys sharing the counter, right after an On that
\* spawns a two-voice group on a key whose buffer was empty the counter is
\* 2 when the other key has no voice and 4 when the other key holds its
\* own two-voice group.
C23_AsStated ==
    [][(/\ last'.op = "on" /\ last'.n = 2 /\ hung' = {}
        /\ VoiceCount(kd[last'.key]) = 0 /\ VoiceCount(kd'[last'.key]) = 2
        /\ VoiceCount(kd[Other(last'.key)]) \in {0, 2})
        => counter' = 2 + VoiceCount(kd[Other(last'.key)])]_vars

\* C23 amended: no event changes the counter; it is the render_to call of
\* a key that brings the key's voices into it.  After the On on key A and
\* A's next render_to the counter is 2 (key B not having been counted),
\* after the On on key B and B's next render_to it is 4, and once the
\* voices have ended and both keys' render_to have reaped them it is 0.
C23_CounterFollowsRender ==
    /\ [][last'.op # "render" => counter' = counter]_vars
    /\ [](\A k \in Keys :
            (k \in fresh /\ VoiceCount(kd[k]) = 2 /\ pc[Other(k)] = "idle") =>
                counter = 2 + kd[Other(k)].last_voice_count)
    /\ []((fresh = Keys /\ \A k \in Keys : VoiceCount(kd[k]) = 2) => counter = 4)
    /\ []((fresh = Keys /\ \A k \in Keys : VoiceCount(kd[k]) = 0) => counter = 0)

\* Both keys hold their two-voice group and both have been rendered since
C23_Witness ==
    /\ fresh = Keys /\ last.op = "render"
    /\ \A k \in Keys : VoiceCount(kd[k]) = 2 /\ kd[k].last_voice_count = 2
    /\ counter = 4

\* The counter is back at 0 after a tick reaped the last voice
C23_WitnessReaped ==
    /\ fresh = Keys /\ last.op = "render" /\ last.ret = Some(1)
    /\ \A k \in Keys : VoiceCount(kd[k]) = 0
    /\ counter = 0

\* C24: a sum_simd call on slices of different lengths panics in a debug
\* build whatever the two lengths are (an empty slice included); in a
\* release build it adds the first min(len(source), len(target)) elements
\* of source to target and leaves the rest of target as it was; on two
\* empty slices it does nothing.
C24_LengthMismatchSurfaced ==
    (sum.on /\ sum.called) =>
        LET ls == Len(sum.source)
            lt == Len(sum.target)
            n  == IF ls <= lt THEN ls ELSE lt
        IN  /\ (sum.debug /\ ls # lt) => sum.panicked
            /\ (~sum.debug /\ ls # lt) =>
                  /\ ~sum.panicked
                  /\ sum.out = [i \in 1..lt |->
                                  IF i <= n THEN sum.target[i] + sum.source[i]
                                  ELSE sum.target[i]]
            /\ (ls = 0 /\ lt = 0) => (~sum.panicked /\ sum.out = <<>>)

\* The samples of a buffer that fall to channel c of cc
RECURSIVE Strided(_, _, _)
Strided(sample, c, cc) ==
    IF c >= Len(sample) THEN <<>>
    ELSE <<sample[c + 1]>> \o Strided(sample, c + cc, cc)

\* One channel limiting a sequence of samples of its own
RECURSIVE ChannelRun(_, _)
ChannelRun(ch, samples) ==
    IF samples = <<>> THEN [ch |-> ch, outs |-> <<>>]
    ELSE LET r    == Limit(ch, Head(samples))
             rest == ChannelRun(r.ch, Tail(samples))
         IN  [ch |-> rest.ch, outs |-> <<r.out>> \o rest.outs]

InRange(a) == a.k = "fin" /\ a.x >= 0 - 990 /\ a.x <= 990

\* C25: whatever the samples and whatever state the limiter has reached
\* from its defaults, every sample VolumeLimiter::limit leaves in the
\* buffer lies in [-0.99, 0.99], and the sample at index i is the result of
\* channel i mod channel_count, each channel having seen exactly its own
\* samples in order.
C25_LimitedAndDispatched ==
    [][(lim.on /\ ~lim'.panicked) =>
          /\ \A i \in 1..Len(lim'.out) : InRange(lim'.out[i])
          /\ \A c \in 0..(lim.vl.channel_count - 1) :
                LET run == ChannelRun(lim.vl.channels[c + 1],
                                      Strided(lim'.input, c, lim.vl.channel_count))
                IN  /\ lim'.vl.channels[c + 1] = run.ch
                    /\ \A j \in 1..Len(run.outs) :
                          lim'.out[c + 1 + (j - 1) * lim.vl.channel_count] = run.outs[j]]_vars

\* C26: a group whose release the damper deferred stays deferred for as
\* long as one of its voices is in the buffer: a render tick that reaps an
\* ended voice of the group leaves the group's id in held_by_damper while
\* another voice of the group remains, so that set_damper(false) (which
\* releases the voices whose id is in held_by_damper, C12) releases it.
C26_DeferredGroupSurvivesReap ==
    [][last'.op = "render" =>
          \A i \in 1..Len(Buf') :
              Contains(kd[1].held_by_damper, Buf'[i].id) =>
                  Contains(kd'[1].held_by_damper, Buf'[i].id)]_vars

\* C27: lifting the damper right after an On releases none of the voices
\* that On pushed (the live voices carrying the newest group id): they
\* have had no note-off.
C27_LiftSparesNewNote ==
    [][(/\ last.op = "on" /\ last.n >= 1 /\ hung = {}
        /\ last'.op = "damper" /\ last'.ret = Some(0)) =>
          \A i \in 1..Len(Buf) :
              (Buf[i].id = kd[1].id_counter /\ ~Buf[i].killed /\ ~Buf[i].releasing)
                  => ~Buf'[i].releasing]_vars

\* C28: with the damper held, an AllOff leaves in held_by_damper the id of
\* every voice that is neither releasing nor killed, and a set_damper(false)
\* right after the AllOff leaves every voice releasing or killed.
C28_AllOffDefersEveryGroup ==
    [][/\ (last'.op = "alloff" /\ kd[1].damper_held /\ hung' = {}) =>
             \A i \in 1..Len(Buf) :
                 (~Buf[i].releasing /\ ~Buf[i].killed) =>
                     Contains(kd'[1].held_by_damper, Buf[i].id)
       /\ (/\ last.op = "alloff" /\ kd[1].damper_held /\ hung = {}
           /\ last'.op = "damper" /\ last'.ret = Some(0)) =>
             \A i \in 1..Len(Buf') : Buf'[i].releasing \/ Buf'[i].killed]_vars

\* Every voice of the key has been released or killed
AllReleased == \A i \in 1..Len(Buf) : Buf[i].releasing \/ Buf[i].killed

\* C29: if from some point on no event arrives, so that render_to calls
\* are all that happens to the key, and every voice left is releasing or
\* killed, then from some point on the key's buffer is empty and the
\* shared counter is 0, whatever the amplitudes of the voices and however
\* many of them the cap leaves out of a tick.
C29_ReapingLive ==
    (<>[][last'.op = "render"]_vars /\ <>[]AllReleased)
        => <>[](Buf = <<>> /\ counter = 0)

\* C31: whatever get_render_buffer and return_render_buffer calls came
\* before, the buffer a get_render_buffer(size) call hands out has length
\* size, a capacity of at least size and only zeros in it, and the pool
\* never holds more than 16 buffers.
C31_PooledBufferSound ==
    /\ [](pool.on => Len(pool.bufs) <= PoolLimit)
    /\ [][(pool.on /\ pool'.op = "get") =>
            /\ pool'.buf.len = pool'.size
            /\ pool'.buf.cap >= pool'.size
            /\ pool'.buf.zero]_vars

====
